---- MODULE Spec2Model ----
(***************************************************************************)
(* twitter-text-py: the Validation class (twitter_text/validation.py) and  *)
(* the pattern tables it uses (twitter_text/regex.py).                     *)
(*                                                                         *)
(* A text is a sequence of codepoints (what Python's ord() gives for each  *)
(* element of the unicode string).  A dict is a function whose domain is   *)
(* its set of keys.  An optional value is a sequence of length 0 or 1.     *)
(***************************************************************************)
EXTENDS Integers, Sequences, FiniteSets, TLC

VARIABLES
    text,             \* Validation.text of the object the last call was made on
    extracted,        \* what Extractor(text) reports for that text
    parent,           \* Validation.parent: the optional result sink
    default_options,  \* the dict object bound once to tweet_length's `options = {}`
    args,             \* the arguments of the last call, as the caller passed them
    options,          \* the caller's options dict after the call (<<>>: none passed)
    op,               \* the last operation called
    result,           \* what it returned: [tag, n]
    build,            \* the Python build the module was imported on
    threads           \* the calls in progress on the threads of SpecThreads

vars == <<text, extracted, parent, default_options, args, options, op, result,
          build, threads>>

----------------------------------------------------------------------------
(* Bounds of the model                                                     *)

MaxTokens == 2      \* a text of SpecText is made of at most this many tokens
MaxEntities == 2    \* the extractor reports at most this many entities of a kind
MaxPad == 282       \* SpecLimit pads a text with 0..MaxPad ASCII characters
MaxName == 21       \* SpecList draws screen names of 0..MaxName characters
MaxUrlTokens == 2   \* a URL text is at most this many tokens
MaxWeighed == 2     \* SpecWeight weighs texts of at most this many codepoints
MaxThreads == 2     \* SpecThreads runs this many threads
MaxTagChars == 3    \* SpecHashtag searches texts of at most this many characters
MaxLocal == 3       \* SpecMention draws local parts of 1..MaxLocal characters
MaxSlug == 26       \* SpecList draws list slugs of 0..MaxSlug characters

----------------------------------------------------------------------------
(* Sequences                                                               *)

Times(c, n) == [i \in 1..n |-> c]      \* Python [c] * n

Slice(s, start, end) == SubSeq(s, start + 1, end)     \* Python s[start:end]

RECURSIVE Flatten(_)
Flatten(ss) == IF ss = <<>> THEN <<>> ELSE Head(ss) \o Flatten(Tail(ss))

\* unicode.find(sub): the lowest 0-based index where sub occurs, or -1
\* the offsets at which the tokens of ts begin and end in Flatten(ts)
RECURSIVE Cut(_, _)
Cut(ts, k) == IF k = 0 THEN 0 ELSE Cut(ts, k - 1) + Len(ts[k])

OccursAt(s, sub, i) == \A k \in 1..Len(sub) : s[i + k] = sub[k]

Find(s, sub) ==
    IF \E i \in 0..(Len(s) - Len(sub)) : OccursAt(s, sub, i)
    THEN CHOOSE i \in 0..(Len(s) - Len(sub)) :
            /\ OccursAt(s, sub, i)
            /\ \A j \in 0..(i - 1) : ~OccursAt(s, sub, j)
    ELSE -1

StartsWith(s, prefix) ==
    Len(s) >= Len(prefix) /\ SubSeq(s, 1, Len(prefix)) = prefix

\* unicode.lower() of one codepoint: A..Z map to a..z; no other codepoint the
\* model draws has a lowercase mapping.
LowerChar(c) == IF c >= 65 /\ c <= 90 THEN c + 32 ELSE c

Lower(s) == [i \in 1..Len(s) |-> LowerChar(s[i])]

----------------------------------------------------------------------------
(* validation.py: module-level tables                                      *)

MAX_LENGTH == 280

DEFAULT_TCO_URL_LENGTHS ==
    [short_url_length |-> 23,
     short_url_length_https |-> 23,
     characters_reserved_per_media |-> 0]

WEIGHTS ==
    [scale |-> 100,
     default_weight |-> 200,
     ranges |-> << [start |-> 0,    end |-> 4351, weight |-> 100],
                   [start |-> 8192, end |-> 8205, weight |-> 100],
                   [start |-> 8208, end |-> 8223, weight |-> 100],
                   [start |-> 8242, end |-> 8247, weight |-> 100] >>]

(* regex.py: character tables                                              *)

\* reduce(lambda x, y: x + y if type(y) == list else x + [y], [...]): Python's
\* range(a, b) is a..b-1
UNICODE_SPACES ==
    (9..12)                        \* range(0x0009, 0x000D)
    \cup {32, 133, 160, 5760, 6158}         \* 0x0020 0x0085 0x00A0 0x1680 0x180E
    \cup (8192..8201)              \* range(0x2000, 0x200A)
    \cup {8232, 8233, 8239, 8287, 12288}    \* 0x2028 0x2029 0x202F 0x205F 0x3000

\* regex_range(start, end): a range of a character class; `end` 0 stands
\* for the absent (falsy) end, which gives the single character
regex_range(start, end) == IF end # 0 THEN <<start, end>> ELSE <<start, start>>

\* Latin accented characters
LATIN_ACCENTS ==
    { regex_range(192, 214), regex_range(216, 246),
      regex_range(248, 255), regex_range(256, 591),
      regex_range(595, 596), regex_range(598, 599), regex_range(601, 0),
      regex_range(603, 0), regex_range(611, 0), regex_range(616, 0),
      regex_range(623, 0), regex_range(626, 0), regex_range(649, 0),
      regex_range(651, 0), regex_range(699, 0), regex_range(768, 879),
      regex_range(7680, 7935) }

NON_LATIN_HASHTAG_CHARS ==
    { regex_range(1024, 1279), regex_range(1280, 1319),
      regex_range(11744, 11775), regex_range(42560, 42655),
      regex_range(1425, 1471), regex_range(1473, 1474),
      regex_range(1476, 1477), regex_range(1479, 0),
      regex_range(1488, 1514), regex_range(1520, 1524),
      regex_range(64274, 64296), regex_range(64298, 64310),
      regex_range(64312, 64316), regex_range(64318, 0),
      regex_range(64320, 64321), regex_range(64323, 64324),
      regex_range(64326, 64335), regex_range(1552, 1562),
      regex_range(1568, 1631), regex_range(1646, 1747),
      regex_range(1749, 1756), regex_range(1758, 1768),
      regex_range(1770, 1775), regex_range(1786, 1788),
      regex_range(1791, 0), regex_range(1872, 1919),
      regex_range(2208, 0), regex_range(2210, 2220),
      regex_range(2276, 2302), regex_range(64336, 64433),
      regex_range(64467, 64829), regex_range(64848, 64911),
      regex_range(64914, 64967), regex_range(65008, 65019),
      regex_range(65136, 65140), regex_range(65142, 65276),
      regex_range(8204, 8204), regex_range(3585, 3642),
      regex_range(3648, 3662), regex_range(4352, 4607),
      regex_range(12592, 12677), regex_range(43360, 43391),
      regex_range(44032, 55215), regex_range(55216, 55295),
      regex_range(65441, 65500) }

\* the first ''.join([...]): Katakana, full-width Latin, Hiragana, Kanji
CJ_HASHTAG_CHARACTERS_16 ==
    { regex_range(12449, 12538), regex_range(12540, 12542),
      regex_range(65382, 65439), regex_range(65296, 65305),
      regex_range(65313, 65338), regex_range(65345, 65370),
      regex_range(12353, 12438), regex_range(12441, 12446),
      regex_range(13312, 19903), regex_range(19968, 40959) }

\* the list joined inside the try block
CJ_HASHTAG_CHARACTERS_EXTENDED ==
    { regex_range(131072, 173791), regex_range(173824, 177983),
      regex_range(177984, 178207), regex_range(194560, 195103),
      regex_range(12291, 0), regex_range(12293, 0),
      regex_range(12347, 0) }

\* unichr(x) raises ValueError for x > 0xFFFF on a narrow build
UnichrRaises(b, x) == b = "narrow" /\ x > 65535

\* try: CJ_HASHTAG_CHARACTERS = ''.join([CJ_HASHTAG_CHARACTERS, ...])
\* except ValueError: pass
\* The list is built before the join and the assignment: one regex_range
\* that raises leaves CJ_HASHTAG_CHARACTERS as it was.
CJ_HASHTAG_CHARACTERS(b) ==
    IF \E r \in CJ_HASHTAG_CHARACTERS_EXTENDED :
          UnichrRaises(b, r[1]) \/ UnichrRaises(b, r[2])
    THEN CJ_HASHTAG_CHARACTERS_16
    ELSE CJ_HASHTAG_CHARACTERS_16 \cup CJ_HASHTAG_CHARACTERS_EXTENDED

\* !"#$%&'()*+,-./:;<=>?@[]^_`{|}~
PUNCTUATION_CHARS == (33..47) \cup (58..64) \cup {91, 93, 94, 95, 96} \cup (123..126)

SPACE_CHARS == {32, 9, 10, 11, 12, 13}           \* " \t\n\x0B\f\r"

CTRL_CHARS == (0..31) \cup {127}                 \* \x00-\x1F\x7F

(* regex.py: characters not allowed in Tweets                              *)
INVALID_CHARACTERS ==
    << 65534, 65279,                      \* 0xFFFE, 0xFEFF: BOM
       65535,                             \* 0xFFFF: special
       8234, 8235, 8236, 8237, 8238 >>    \* 0x202A..0x202E: directional change

\* REGEXEN['invalid_control_characters']: the list [unichr(x) for x in ...]
invalid_control_characters == INVALID_CHARACTERS

\* ur''.join(REGEXEN['invalid_control_characters']): the list joined into ONE
\* pattern string.  None of its characters is a regex metacharacter, so the
\* pattern is the literal eight-character string.
InvalidCharactersPattern == Flatten([i \in 1..Len(invalid_control_characters) |->
                                        <<invalid_control_characters[i]>>])

\* DOMAIN_VALID_CHARS: [^ punctuation, space, control, invalid, unicode space ]
DOMAIN_VALID_CHARS(c) ==
    c \notin PUNCTUATION_CHARS \cup SPACE_CHARS \cup CTRL_CHARS
              \cup {INVALID_CHARACTERS[i] : i \in 1..Len(INVALID_CHARACTERS)}
              \cup UNICODE_SPACES

\* re.search(pattern, text) for a pattern of literal characters
SearchLiteral(pattern, s) == Find(s, pattern) > -1

----------------------------------------------------------------------------
(* Validation.tweet_length                                                 *)

HttpsPrefix == <<104, 116, 116, 112, 115, 58, 47, 47>>       \* 'https://'

\* for rng in WEIGHTS['ranges']: every range is visited, a later match
\* overwrites an earlier one
RECURSIVE RangeWeight(_, _, _)
RangeWeight(codepoint, i, char_weight) ==
    IF i > Len(WEIGHTS.ranges) THEN char_weight
    ELSE LET rng == WEIGHTS.ranges[i]
         IN  RangeWeight(codepoint, i + 1,
                         IF rng.start <= codepoint /\ codepoint <= rng.end
                         THEN rng.weight ELSE char_weight)

\* (mutant) a surrogate weighed like any other codepoint
CharWeightOfSurrogate(codepoint) ==
    RangeWeight(codepoint, 1, WEIGHTS.default_weight)

CharWeight(codepoint) ==
    IF codepoint >= 55296 /\ codepoint <= 56319      \* 0xd800..0xdbff
    THEN 0
    ELSE RangeWeight(codepoint, 1, WEIGHTS.default_weight)

\* for char in self.text: collective_weight = collective_weight + char_weight.
\* The sum over s[lo..hi], split in halves to keep the evaluation shallow.
RECURSIVE CollectiveWeight(_, _, _)
CollectiveWeight(s, lo, hi) ==
    IF lo > hi THEN 0
    ELSE IF lo = hi THEN CharWeight(s[lo])
    ELSE LET mid == (lo + hi) \div 2
         IN  CollectiveWeight(s, lo, mid) + CollectiveWeight(s, mid + 1, hi)

\* for key in DEFAULT_TCO_URL_LENGTHS: if not key in options: options[key] = ...
FillOptions(opts) ==
    [key \in (DOMAIN opts) \cup (DOMAIN DEFAULT_TCO_URL_LENGTHS) |->
        IF key \in DOMAIN opts THEN opts[key] ELSE DEFAULT_TCO_URL_LENGTHS[key]]

\* the replacement length charged for one extracted URL
UrlCharge(url, opts) ==
    IF Find(Lower(url.url), HttpsPrefix) > -1
    THEN opts["short_url_length_https"]
    ELSE opts["short_url_length"]

\* (mutant) the URL's own characters are not removed from the length
RECURSIVE UrlAdjustKeepsUrl(_, _, _, _)
UrlAdjustKeepsUrl(urls, i, opts, length) ==
    IF i > Len(urls) THEN length
    ELSE UrlAdjustKeepsUrl(urls, i + 1, opts, length + UrlCharge(urls[i], opts))

RECURSIVE UrlAdjust(_, _, _, _)
UrlAdjust(urls, i, opts, length) ==
    IF i > Len(urls) THEN length
    ELSE UrlAdjust(urls, i + 1, opts,
                   length + (urls[i].indices[1] - urls[i].indices[2])
                          + UrlCharge(urls[i], opts))

\* the value tweet_length returns for options already filled with the defaults
Length(s, urls, opts) ==
    UrlAdjust(urls, 1, opts, CollectiveWeight(s, 1, Len(s)) \div WEIGHTS.scale)

\* the dict the call works on (the caller's, or the shared default object),
\* after the defaults are filled in
WorkingOptions(shared, passed) ==
    IF passed = <<>> THEN FillOptions(shared) ELSE FillOptions(passed[1])

\* the shared default object after a call: written only when it is the dict
\* the call works on
SharedAfterCallLeaks(shared, passed) ==       \* (mutant) every call writes it
    IF passed = <<>> THEN FillOptions(shared) ELSE FillOptions(passed[1])

SharedAfterCall(shared, passed) ==
    IF passed = <<>> THEN FillOptions(shared) ELSE shared

\* the caller's dict after a call that passed one
CallerAfterCall(passed) ==
    IF passed = <<>> THEN <<>> ELSE <<FillOptions(passed[1])>>

\* self.parent.tweet_length = length
ParentWithLength(p, length) ==
    IF p.present THEN [p EXCEPT !.tweet_length = <<length>>] ELSE p

tweet_length(passed) ==
    LET length == Length(text, extracted.urls, WorkingOptions(default_options, passed))
    IN  /\ default_options' = SharedAfterCall(default_options, passed)
        /\ options' = CallerAfterCall(passed)
        /\ parent' = ParentWithLength(parent, length)
        /\ args' = [options |-> passed]
        /\ op' = "tweet_length"
        /\ result' = [tag |-> "int", n |-> length]
        /\ UNCHANGED <<text, extracted, build, threads>>

----------------------------------------------------------------------------
(* Validation.tweet_invalid, Validation.valid_tweet_text                   *)

IsEmptyLength(length) == length = 0                  \* not self.tweet_length()

\* (mutant) the limit taken one too low
IsTooLongOffByOne(length) == length >= MAX_LENGTH

IsTooLong(length) == length > MAX_LENGTH

HasInvalidCharacters(s) == SearchLiteral(InvalidCharactersPattern, s)

\* the three tests in the order the code makes them; each one that fires
\* overwrites validation_error
ValidationError(s, length) ==
    LET e1 == IF IsEmptyLength(length) THEN "Empty text" ELSE "None"
        e2 == IF IsTooLong(length) THEN "Too long" ELSE e1
        e3 == IF HasInvalidCharacters(s) THEN "Invalid characters" ELSE e2
    IN  e3

\* return validation_error if not valid else False
InvalidReturn(validation_error) ==
    IF validation_error = "None" THEN "False" ELSE validation_error

ParentWithVerdict(p, length, validation_error) ==
    IF p.present
    THEN [p EXCEPT !.tweet_length = <<length>>,
                   !.tweet_is_valid = <<validation_error = "None">>,
                   !.tweet_validation_error = <<validation_error>>]
    ELSE p

\* both calls of self.tweet_length() use the default argument
TweetInvalidStep(tag_of) ==
    LET opts == WorkingOptions(default_options, <<>>)
        length == Length(text, extracted.urls, opts)
        validation_error == ValidationError(text, length)
    IN  /\ default_options' = SharedAfterCall(default_options, <<>>)
        /\ options' = <<>>
        /\ parent' = ParentWithVerdict(parent, length, validation_error)
        /\ result' = [tag |-> tag_of[InvalidReturn(validation_error)], n |-> 0]
        /\ UNCHANGED <<text, extracted, build, threads>>

Reasons == {"False", "Empty text", "Too long", "Invalid characters"}

tweet_invalid ==
    /\ TweetInvalidStep([r \in Reasons |-> r])
    /\ args' = [none |-> TRUE]
    /\ op' = "tweet_invalid"

\* not self.tweet_invalid()
valid_tweet_text ==
    /\ TweetInvalidStep([r \in Reasons |-> IF r = "False" THEN "True" ELSE "False"])
    /\ args' = [none |-> TRUE]
    /\ op' = "valid_tweet_text"

----------------------------------------------------------------------------
(* Validation.tweet_length and Validation.tweet_invalid, statement by      *)
(* statement, for calls that run on several threads at once.  A thread is  *)
(* switched between two statements; a test of the dict, a write to it and  *)
(* a read of it are each one step.  What a statement does to the thread's  *)
(* own text and locals is taken together with the step before it.          *)

\* for key in DEFAULT_TCO_URL_LENGTHS: the keys in the order of the loop
DefaultKeys == <<"short_url_length", "short_url_length_https",
                 "characters_reserved_per_media">>

\* (mutant) a dict passed by the caller is ignored for the shared one
UsesDefaultAlways(passed) == TRUE

\* `options` is the shared default object exactly when the caller passed none
UsesDefault(passed) == passed = <<>>

\* if not key in options
KeyMissing(opts, key) == key \notin DOMAIN opts

\* options[key] = DEFAULT_TCO_URL_LENGTHS[key]
SetDefault(opts, key) ==
    [k \in (DOMAIN opts) \cup {key} |->
        IF k = key THEN DEFAULT_TCO_URL_LENGTHS[key] ELSE opts[k]]

\* the dict the thread's call of tweet_length works on: tweet_invalid calls
\* self.tweet_length() without options
ThreadPassed(th) == IF th.job = "tweet_length" THEN th.passed ELSE <<>>

ThreadDict(th) ==
    IF UsesDefault(ThreadPassed(th)) THEN default_options ELSE th.own

\* the verdict of tweet_invalid from the values of its two calls of
\* self.tweet_length()
ThreadVerdict(s, first, second) ==
    LET e1 == IF IsEmptyLength(first) THEN "Empty text" ELSE "None"
        e2 == IF IsTooLong(second) THEN "Too long" ELSE e1
        e3 == IF HasInvalidCharacters(s) THEN "Invalid characters" ELSE e2
    IN  InvalidReturn(e3)

\* the call is entered: the loop over the default keys begins
T_Call(t) ==
    /\ threads[t].pc = "idle"
    /\ threads' = [threads EXCEPT ![t].pc = "test", ![t].key = 1]
    /\ UNCHANGED <<text, extracted, parent, default_options, args, options, op, result,
                   build>>

\* if not key in options
T_Test(t) ==
    LET th == threads[t]
    IN  /\ th.pc = "test"
        /\ th.key <= Len(DefaultKeys)
        /\ threads' = IF KeyMissing(ThreadDict(th), DefaultKeys[th.key])
                      THEN [threads EXCEPT ![t].pc = "set"]
                      ELSE [threads EXCEPT ![t].key = th.key + 1]
        /\ UNCHANGED <<text, extracted, parent, default_options, args, options, op,
                       result, build>>

\* options[key] = DEFAULT_TCO_URL_LENGTHS[key]
T_Set(t) ==
    LET th == threads[t]
        dict == SetDefault(ThreadDict(th), DefaultKeys[th.key])
    IN  /\ th.pc = "set"
        /\ IF UsesDefault(ThreadPassed(th))
           THEN /\ default_options' = dict
                /\ threads' = [threads EXCEPT ![t].pc = "test", ![t].key = th.key + 1]
           ELSE /\ default_options' = default_options
                /\ threads' = [threads EXCEPT ![t].pc = "test", ![t].key = th.key + 1,
                                              ![t].own = dict]
        /\ UNCHANGED <<text, extracted, parent, args, options, op, result, build>>

\* the loop over the keys is left; the weights of the text are summed and
\* divided by the scale
T_Weigh(t) ==
    LET th == threads[t]
    IN  /\ th.pc = "test"
        /\ th.key > Len(DefaultKeys)
        /\ threads' = [threads EXCEPT
                          ![t].pc = "urls", ![t].url = 1,
                          ![t].length = CollectiveWeight(th.text, 1, Len(th.text))
                                            \div WEIGHTS.scale]
        /\ UNCHANGED <<text, extracted, parent, default_options, args, options, op,
                       result, build>>

\* one round of the loop over the extracted URLs: options.get(...) is read
T_Url(t) ==
    LET th == threads[t]
        url == th.urls[th.url]
    IN  /\ th.pc = "urls"
        /\ th.url <= Len(th.urls)
        /\ threads' = [threads EXCEPT
                          ![t].url = th.url + 1,
                          ![t].length = th.length + (url.indices[1] - url.indices[2])
                                            + UrlCharge(url, ThreadDict(th))]
        /\ UNCHANGED <<text, extracted, parent, default_options, args, options, op,
                       result, build>>

\* return length: to the caller, or to tweet_invalid, which calls
\* self.tweet_length() a second time and then returns its verdict
T_Return(t) ==
    LET th == threads[t]
    IN  /\ th.pc = "urls"
        /\ th.url > Len(th.urls)
        /\ threads' =
              IF th.job = "tweet_length"
              THEN [threads EXCEPT ![t].pc = "done",
                                   ![t].result = [tag |-> "int", n |-> th.length]]
              ELSE IF th.call = 1
              THEN [threads EXCEPT ![t].pc = "test", ![t].key = 1, ![t].call = 2,
                                   ![t].first = th.length]
              ELSE [threads EXCEPT ![t].pc = "done",
                                   ![t].result =
                                       [tag |-> ThreadVerdict(th.text, th.first, th.length),
                                        n |-> 0]]
        /\ UNCHANGED <<text, extracted, parent, default_options, args, options, op,
                       result, build>>

----------------------------------------------------------------------------
(* Python's re: a backtracking matcher                                     *)
(*                                                                         *)
(* A pattern is a tree of records.  Run gives every way the pattern can    *)
(* match at an offset, in the order the backtracking matcher tries them:   *)
(* its first element is the match re.match reports.  Each way is the       *)
(* offset where the match ends and the spans of the capture groups, <<>>   *)
(* for a group that took no part (Python's None).                          *)

Set(ranges) == [t |-> "set", neg |-> FALSE, ranges |-> ranges]    \* [...]
NotSet(ranges) == [t |-> "set", neg |-> TRUE, ranges |-> ranges]  \* [^...]
Chr(c) == Set({<<c, c>>})
Chars(cs) == {<<c, c>> : c \in cs}
Cat(parts) == [t |-> "cat", parts |-> parts]
Alt(parts) == [t |-> "alt", parts |-> parts]
Rep(node, min, max) == [t |-> "rep", of |-> node, min |-> min, max |-> max]
Inf == -1                                      \* no upper limit: * and +
Opt(node) == Rep(node, 0, 1)
Group(idx, node) == [t |-> "grp", idx |-> idx, of |-> node]
Bol == [t |-> "bol"]        \* ^ (no MULTILINE) and \A: the start of the string
Eol == [t |-> "eol"]        \* $ (no MULTILINE): the end, or before a final newline
EndZ == [t |-> "end"]       \* \Z: the end of the string
AnyChar == NotSet({<<10, 10>>})                \* . (no DOTALL)
Str(cs) == Cat([i \in 1..Len(cs) |-> Chr(cs[i])])
Ahead(node) == [t |-> "look", of |-> node]     \* (?=...)

\* With re.IGNORECASE the character is lowered and so are the literals and
\* the ends of the ranges of the class.
InClass(c, node, ic) ==
    LET x == IF ic THEN LowerChar(c) ELSE c
        hit == \E r \in node.ranges :
                  IF ic THEN LowerChar(r[1]) <= x /\ x <= LowerChar(r[2])
                  ELSE r[1] <= x /\ x <= r[2]
    IN  hit # node.neg

RECURSIVE Run(_, _, _, _, _)
RECURSIVE RunCat(_, _, _, _, _, _)
RECURSIVE RunCatOver(_, _, _, _, _, _)
RECURSIVE RunAlt(_, _, _, _, _, _)
RECURSIVE RunRep(_, _, _, _, _, _)
RECURSIVE RunRepOver(_, _, _, _, _, _, _)
RECURSIVE CloseGroup(_, _, _, _)

Run(node, s, i, caps, ic) ==
    CASE node.t = "set" ->
            IF i < Len(s) /\ InClass(s[i + 1], node, ic)
            THEN << [pos |-> i + 1, caps |-> caps] >> ELSE <<>>
      [] node.t = "cat" -> RunCat(node.parts, 1, s, i, caps, ic)
      [] node.t = "alt" -> RunAlt(node.parts, 1, s, i, caps, ic)
      [] node.t = "rep" -> RunRep(node, 0, s, i, caps, ic)
      [] node.t = "grp" -> CloseGroup(Run(node.of, s, i, caps, ic), 1, node.idx, i)
      [] node.t = "bol" -> IF i = 0 THEN << [pos |-> i, caps |-> caps] >> ELSE <<>>
      [] node.t = "eol" ->
            IF i = Len(s) \/ (i = Len(s) - 1 /\ s[Len(s)] = 10)
            THEN << [pos |-> i, caps |-> caps] >> ELSE <<>>
      [] node.t = "end" -> IF i = Len(s) THEN << [pos |-> i, caps |-> caps] >> ELSE <<>>
      [] node.t = "look" ->
            IF Run(node.of, s, i, caps, ic) # <<>>
            THEN << [pos |-> i, caps |-> caps] >> ELSE <<>>

\* the parts from the k-th on, one after the other
RunCat(parts, k, s, i, caps, ic) ==
    IF k > Len(parts) THEN << [pos |-> i, caps |-> caps] >>
    ELSE RunCatOver(Run(parts[k], s, i, caps, ic), 1, parts, k, s, ic)

RunCatOver(ways, j, parts, k, s, ic) ==
    IF j > Len(ways) THEN <<>>
    ELSE RunCat(parts, k + 1, s, ways[j].pos, ways[j].caps, ic)
            \o RunCatOver(ways, j + 1, parts, k, s, ic)

\* the alternatives from the k-th on, the leftmost first
RunAlt(parts, k, s, i, caps, ic) ==
    IF k > Len(parts) THEN <<>>
    ELSE Run(parts[k], s, i, caps, ic) \o RunAlt(parts, k + 1, s, i, caps, ic)

\* a greedy repetition after n rounds: one more round first, stopping last;
\* a round that matches the empty string ends the repetition
RunRep(node, n, s, i, caps, ic) ==
    LET more == IF node.max = Inf \/ n < node.max
                THEN RunRepOver(Run(node.of, s, i, caps, ic), 1, node, n, s, i, ic)
                ELSE <<>>
        stop == IF n >= node.min THEN << [pos |-> i, caps |-> caps] >> ELSE <<>>
    IN  more \o stop

RunRepOver(ways, j, node, n, s, i, ic) ==
    IF j > Len(ways) THEN <<>>
    ELSE (IF ways[j].pos > i \/ n < node.min
          THEN RunRep(node, n + 1, s, ways[j].pos, ways[j].caps, ic)
          ELSE <<>>)
            \o RunRepOver(ways, j + 1, node, n, s, i, ic)

CloseGroup(ways, j, idx, start) ==
    IF j > Len(ways) THEN <<>>
    ELSE << [pos |-> ways[j].pos,
             caps |-> [ways[j].caps EXCEPT ![idx] = <<start, ways[j].pos>>]] >>
            \o CloseGroup(ways, j + 1, idx, start)

NoCaps(groups) == [g \in 1..groups |-> <<>>]

\* re_obj.match(string): <<>> for None, else <<the first way>>
Match(re, s) ==
    LET ways == Run(re.node, s, 0, NoCaps(re.groups), re.ic)
    IN  IF ways = <<>> THEN <<>> ELSE <<ways[1]>>

\* re_obj.search(string): the first offset at which the pattern matches
RECURSIVE SearchFrom(_, _, _)
SearchFrom(re, s, i) ==
    IF i > Len(s) THEN <<>>
    ELSE LET ways == Run(re.node, s, i, NoCaps(re.groups), re.ic)
         IN  IF ways = <<>> THEN SearchFrom(re, s, i + 1) ELSE <<ways[1]>>

Search(re, s) == SearchFrom(re, s, 0)

\* match.groups()[k - 1]: <<>> for None, else <<the text of the group>>
GroupText(m, k, s) ==
    IF m.caps[k] = <<>> THEN <<>> ELSE << Slice(s, m.caps[k][1], m.caps[k][2]) >>

Compile(node, groups, ic) == [node |-> node, groups |-> groups, ic |-> ic]

----------------------------------------------------------------------------
(* regex.py: the mention and list pattern; Validation.valid_list           *)

Letters == {<<97, 122>>, <<65, 90>>}                    \* a-zA-Z
Digits == {<<48, 57>>}                                  \* 0-9
Underscore == {<<95, 95>>}                              \* _

\* the three characters that follow '@' in the at-sign classes of regex.py
\* (U+2116, U+255D, U+0430)
AtSignChars == {64, 8470, 9565, 1072}

\* REGEXEN['valid_mention_preceding_chars']: (?:[^a-zA-Z0-9_!#\$%&*@...]|^|RT:?)
valid_mention_preceding_chars ==
    Alt(<< NotSet(Letters \cup Digits \cup Underscore
                    \cup Chars({33, 35, 36, 37, 38, 42}) \cup Chars(AtSignChars)),
           Bol,
           Cat(<< Chr(82), Chr(84), Opt(Chr(58)) >>) >>)

\* REGEXEN['at_signs']
at_signs == Set(Chars(AtSignChars))

\* REGEXEN['valid_mention_or_list'] (pattern only): four groups
valid_mention_or_list ==
    Cat(<< Group(1, valid_mention_preceding_chars),             \* preceding character
           Group(2, at_signs),                                  \* at mark
           Group(3, Rep(Set(Letters \cup Digits \cup Underscore), 1, 20)),
                                                                \* screen name
           Opt(Group(4, Cat(<< Chr(47), Set(Letters),
                               Rep(Set(Letters \cup Digits \cup Underscore
                                         \cup Chars({45})), 0, 24) >>)))
                                                                \* list (optional)
        >>)

\* REGEXEN['valid_mention_or_list'], compiled without flags
MentionPattern == Compile(valid_mention_or_list, 4, FALSE)

\* REGEXEN['valid_mention_or_list'].search(text): "match" and the offset of
\* the at-sign, or "None"
mention_search ==
    LET match == Search(MentionPattern, text)
    IN  /\ result' = IF match = <<>> THEN [tag |-> "None", n |-> 0]
                     ELSE [tag |-> "match", n |-> match[1].caps[2][1]]
        /\ args' = [none |-> TRUE]
        /\ options' = <<>>
        /\ op' = "mention_search"
        /\ UNCHANGED <<text, extracted, parent, default_options, build, threads>>

\* re.compile(ur'^%s$' % REGEXEN['valid_mention_or_list'].pattern): no flags
ListPattern == Compile(Cat(<< Bol, valid_mention_or_list, Eol >>), 4, FALSE)

\* bool(match is not None and match.groups()[0] == "" and match.groups()[3])
ValidList(s) ==
    LET match == Search(ListPattern, s)
    IN  /\ match # <<>>
        /\ GroupText(match[1], 1, s) = << <<>> >>
        /\ GroupText(match[1], 4, s) # <<>>
        /\ GroupText(match[1], 4, s) # << <<>> >>

Bool(b) == IF b THEN "True" ELSE "False"

valid_list ==
    /\ result' = [tag |-> Bool(ValidList(text)), n |-> 0]
    /\ args' = [none |-> TRUE]
    /\ options' = <<>>
    /\ op' = "valid_list"
    /\ UNCHANGED <<text, extracted, parent, default_options, build, threads>>

----------------------------------------------------------------------------
(* regex.py: hashtag character classes; Validation.valid_username,         *)
(* Validation.valid_hashtag                                                *)

\* HASHTAG_ALPHA: [a-z_...], HASHTAG_ALPHANUMERIC: [a-z0-9_...]; the HASHTAG
\* pattern that holds them is compiled with re.IGNORECASE
HASHTAG_ALPHA(b) ==
    Set({<<97, 122>>} \cup Underscore
          \cup LATIN_ACCENTS \cup NON_LATIN_HASHTAG_CHARS \cup CJ_HASHTAG_CHARACTERS(b))

HASHTAG_ALPHANUMERIC(b) ==
    Set({<<97, 122>>} \cup Digits \cup Underscore
          \cup LATIN_ACCENTS \cup NON_LATIN_HASHTAG_CHARS \cup CJ_HASHTAG_CHARACTERS(b))

\* HASHTAG_BOUNDARY: \A|\z|\[|[^&a-z0-9_...]; Python's re reads \z, which
\* is no escape it knows, as the letter z
HASHTAG_BOUNDARY(b) ==
    Alt(<< Bol, Chr(122), Chr(91),
           NotSet(Chars({38}) \cup {<<97, 122>>} \cup Digits \cup Underscore
                    \cup LATIN_ACCENTS \cup NON_LATIN_HASHTAG_CHARS
                    \cup CJ_HASHTAG_CHARACTERS(b)) >>)

\* the second alternative of the marker group of HASHTAG: the three
\* characters U+2116, U+255D, U+0403
WideHashMarker == <<8470, 9565, 1027>>

\* HASHTAG: (boundary)(#|...)(alphanumeric*alpha alphanumeric*), re.IGNORECASE
HASHTAG(b) ==
    Compile(Cat(<< Group(1, HASHTAG_BOUNDARY(b)),
                   Group(2, Alt(<< Chr(35), Str(WideHashMarker) >>)),
                   Group(3, Cat(<< Rep(HASHTAG_ALPHANUMERIC(b), 0, Inf),
                                   HASHTAG_ALPHA(b),
                                   Rep(HASHTAG_ALPHANUMERIC(b), 0, Inf) >>)) >>),
            3, TRUE)

\* REGEXEN['valid_hashtag'].search(text): "match" and the offset of the
\* marker, or "None"
hashtag_search ==
    LET match == Search(HASHTAG(build), text)
    IN  /\ result' = IF match = <<>> THEN [tag |-> "None", n |-> 0]
                     ELSE [tag |-> "match", n |-> match[1].caps[2][1]]
        /\ args' = [none |-> TRUE]
        /\ options' = <<>>
        /\ op' = "hashtag_search"
        /\ UNCHANGED <<text, extracted, parent, default_options, build, threads>>

\* the screen name group of REGEXEN['valid_mention_or_list']: [a-zA-Z0-9_]{1,20}
IsScreenName(s) ==
    /\ Len(s) >= 1
    /\ Len(s) <= 20
    /\ \A i \in 1..Len(s) : InClass(s[i], Set(Letters \cup Digits \cup Underscore), FALSE)

\* the text group of HASHTAG: alphanumerics with at least one alpha
IsHashtagText(s, b) ==
    /\ \A i \in 1..Len(s) : InClass(s[i], HASHTAG_ALPHANUMERIC(b), TRUE)
    /\ \E i \in 1..Len(s) : InClass(s[i], HASHTAG_ALPHA(b), TRUE)

\* the ordered lists of at most MaxEntities non-overlapping spans among `spans`
SpanLists(spans) ==
    LET lists == UNION {[1..n -> spans] : n \in 0..MaxEntities}
    IN  {l \in lists : \A m \in 1..(Len(l) - 1) : l[m][2] <= l[m + 1][1]}

TokenSpans(ts) ==
    {sp \in {<<Cut(ts, i), Cut(ts, j)>> : i, j \in 0..Len(ts)} : sp[1] < sp[2]}

\* Extractor.extract_mentioned_screen_names: the screen names of an ordered
\* list of non-overlapping spans of the text, each an at-sign and a screen
\* name (the at-sign is part of the span, not of the reported name).
\* The model lets the spans begin and end at token boundaries.
ScreenNameReports(ts) ==
    LET s == Flatten(ts)
        mentions == {sp \in TokenSpans(ts) :
                        /\ s[sp[1] + 1] \in AtSignChars
                        /\ IsScreenName(Slice(s, sp[1] + 1, sp[2]))}
    IN  {[m \in 1..Len(l) |-> Slice(s, l[m][1] + 1, l[m][2])] : l \in SpanLists(mentions)}

\* Extractor.extract_hashtags: the same for '#' and a hashtag text
HashtagReports(ts, b) ==
    LET s == Flatten(ts)
        tags == {sp \in TokenSpans(ts) :
                    /\ s[sp[1] + 1] = 35
                    /\ IsHashtagText(Slice(s, sp[1] + 1, sp[2]), b)}
    IN  {[m \in 1..Len(l) |-> Slice(s, l[m][1] + 1, l[m][2])] : l \in SpanLists(tags)}

\* (mutant) the entity compared with the whole text, marker included
SingleEntityIsWholeText(entities, s) == Len(entities) = 1 /\ entities[1] = s

\* len(extracted) == 1 and extracted[0] == self.text[1:]
SingleEntityIsText(entities, s) ==
    Len(entities) = 1 /\ entities[1] = Slice(s, 1, Len(s))

\* if not self.text: return False
ValidEntity(entities, s) == s # <<>> /\ SingleEntityIsText(entities, s)

valid_username ==
    /\ result' = [tag |-> Bool(ValidEntity(extracted.screen_names, text)), n |-> 0]
    /\ args' = [none |-> TRUE]
    /\ options' = <<>>
    /\ op' = "valid_username"
    /\ UNCHANGED <<text, extracted, parent, default_options, build, threads>>

valid_hashtag ==
    /\ result' = [tag |-> Bool(ValidEntity(extracted.hashtags, text)), n |-> 0]
    /\ args' = [none |-> TRUE]
    /\ options' = <<>>
    /\ op' = "valid_hashtag"
    /\ UNCHANGED <<text, extracted, parent, default_options, build, threads>>

----------------------------------------------------------------------------
(* regex.py: the validate_url_* patterns; Validation.valid_url,            *)
(* Validation._valid_match                                                 *)
(*                                                                         *)
(* The patterns are compiled with re.IGNORECASE | re.UNICODE; LowerChar    *)
(* lowers the ASCII letters, which is what Python does to every character  *)
(* of the texts examined here.                                             *)

Lowers == {<<97, 122>>}                                 \* a-z
Hexes == {<<48, 57>>, <<97, 102>>}                      \* 0-9a-f
NonAscii == NotSet({<<0, 127>>})                        \* [^\x00-\x7f]

\* [a-z0-9\-._~]
validate_url_unreserved == Set(Lowers \cup Digits \cup Chars({45, 46, 95, 126}))

\* (?:%[0-9a-f]{2})
validate_url_pct_encoded == Cat(<< Chr(37), Rep(Set(Hexes), 2, 2) >>)

\* [!$&'()*+,;=]
validate_url_sub_delims == Set(Chars({33, 36, 38, 39, 40, 41, 42, 43, 44, 59, 61}))

\* (?:unreserved|pct_encoded|sub_delims|[:\|@])
validate_url_pchar ==
    Alt(<< validate_url_unreserved, validate_url_pct_encoded, validate_url_sub_delims,
           Set(Chars({58, 124, 64})) >>)

\* (?:[a-z][a-z0-9+\-.]*)
validate_url_scheme ==
    Compile(Cat(<< Set(Lowers),
                   Rep(Set(Lowers \cup Digits \cup Chars({43, 45, 46})), 0, Inf) >>), 0, TRUE)

\* (?:unreserved|pct_encoded|sub_delims|:)*
validate_url_userinfo ==
    Rep(Alt(<< validate_url_unreserved, validate_url_pct_encoded, validate_url_sub_delims,
               Chr(58) >>), 0, Inf)

\* (?:[0-9]|(?:[1-9][0-9])|(?:1[0-9]{2})|(?:2[0-4][0-9])|(?:25[0-5]))
validate_url_dec_octet ==
    Alt(<< Set(Digits),
           Cat(<< Set({<<49, 57>>}), Set(Digits) >>),
           Cat(<< Chr(49), Rep(Set(Digits), 2, 2) >>),
           Cat(<< Chr(50), Set({<<48, 52>>}), Set(Digits) >>),
           Cat(<< Chr(50), Chr(53), Set({<<48, 53>>}) >>) >>)

\* (?:dec_octet(?:\.dec_octet){3})
validate_url_ipv4 ==
    Cat(<< validate_url_dec_octet,
           Rep(Cat(<< Chr(46), validate_url_dec_octet >>), 3, 3) >>)

\* (?:\[[a-f0-9:\.]+\])
validate_url_ipv6 ==
    Cat(<< Chr(91), Rep(Set({<<97, 102>>} \cup Digits \cup Chars({58, 46})), 1, Inf),
           Chr(93) >>)

\* (?:ipv4|ipv6)
validate_url_ip == Alt(<< validate_url_ipv4, validate_url_ipv6 >>)

\* (?:first(?:middle*last)?): the shape of every domain segment pattern
Segment(first, middle, last) ==
    Cat(<< first, Opt(Cat(<< Rep(middle, 0, Inf), last >>)) >>)

\* (?:[a-z0-9](?:[a-z0-9_\-]*[a-z0-9])?)
validate_url_subdomain_segment ==
    Segment(Set(Lowers \cup Digits), Set(Lowers \cup Digits \cup Chars({95, 45})),
            Set(Lowers \cup Digits))

\* (?:[a-z0-9](?:[a-z0-9\-]*[a-z0-9])?)
validate_url_domain_segment ==
    Segment(Set(Lowers \cup Digits), Set(Lowers \cup Digits \cup Chars({45})),
            Set(Lowers \cup Digits))

\* (?:[a-z](?:[a-z0-9\-]*[a-z0-9])?)
validate_url_domain_tld ==
    Segment(Set(Lowers), Set(Lowers \cup Digits \cup Chars({45})), Set(Lowers \cup Digits))

\* (?:(?:subdomain\.)*(?:segment\.)tld): the shape of both domain patterns
Domain(subdomain, segment, tld) ==
    Cat(<< Rep(Cat(<< subdomain, Chr(46) >>), 0, Inf), Cat(<< segment, Chr(46) >>), tld >>)

validate_url_domain ==
    Domain(validate_url_subdomain_segment, validate_url_domain_segment,
           validate_url_domain_tld)

\* (?:ip|domain)
validate_url_host == Alt(<< validate_url_ip, validate_url_domain >>)

\* the unicode segments: every class also admits [^\x00-\x7f]
validate_url_unicode_subdomain_segment ==
    Segment(Alt(<< Set(Lowers \cup Digits), NonAscii >>),
            Alt(<< Set(Lowers \cup Digits \cup Chars({95, 45})), NonAscii >>),
            Alt(<< Set(Lowers \cup Digits), NonAscii >>))

validate_url_unicode_domain_segment ==
    Segment(Alt(<< Set(Lowers \cup Digits), NonAscii >>),
            Alt(<< Set(Lowers \cup Digits \cup Chars({45})), NonAscii >>),
            Alt(<< Set(Lowers \cup Digits), NonAscii >>))

validate_url_unicode_domain_tld ==
    Segment(Alt(<< Set(Lowers), NonAscii >>),
            Alt(<< Set(Lowers \cup Digits \cup Chars({45})), NonAscii >>),
            Alt(<< Set(Lowers \cup Digits), NonAscii >>))

validate_url_unicode_domain ==
    Domain(validate_url_unicode_subdomain_segment, validate_url_unicode_domain_segment,
           validate_url_unicode_domain_tld)

validate_url_unicode_host == Alt(<< validate_url_ip, validate_url_unicode_domain >>)

\* [0-9]{1,5}
validate_url_port == Rep(Set(Digits), 1, 5)

\* (?:(userinfo)@)?(host)(?::(port))?: the shape of both authority patterns
Authority(host) ==
    Compile(Cat(<< Opt(Cat(<< Group(1, validate_url_userinfo), Chr(64) >>)),
                   Group(2, host),
                   Opt(Cat(<< Chr(58), Group(3, validate_url_port) >>)) >>),
            3, TRUE)

validate_url_unicode_authority == Authority(validate_url_unicode_host)

validate_url_authority == Authority(validate_url_host)

\* (/pchar*)*
validate_url_path ==
    Compile(Rep(Group(1, Cat(<< Chr(47), Rep(validate_url_pchar, 0, Inf) >>)), 0, Inf),
            1, TRUE)

\* (pchar|/|\?)*
validate_url_query ==
    Compile(Rep(Group(1, Alt(<< validate_url_pchar, Chr(47), Chr(63) >>)), 0, Inf), 1, TRUE)

validate_url_fragment ==
    Compile(Rep(Group(1, Alt(<< validate_url_pchar, Chr(47), Chr(63) >>)), 0, Inf), 1, TRUE)

\* \A(?:([^:/?#]+)://)?([^/?#]*)([^?#]*)(?:\?([^#]*))?(?:\#(.*))?\Z
validate_url_unencoded ==
    Compile(Cat(<< Bol,
                   Opt(Cat(<< Group(1, Rep(NotSet(Chars({58, 47, 63, 35})), 1, Inf)),
                              Chr(58), Chr(47), Chr(47) >>)),
                   Group(2, Rep(NotSet(Chars({47, 63, 35})), 0, Inf)),
                   Group(3, Rep(NotSet(Chars({63, 35})), 0, Inf)),
                   Opt(Cat(<< Chr(63), Group(4, Rep(NotSet(Chars({35})), 0, Inf)) >>)),
                   Opt(Cat(<< Chr(35), Group(5, Rep(AnyChar, 0, Inf)) >>)),
                   EndZ >>),
            5, TRUE)

\* re.compile(ur'^https?$', re.IGNORECASE)
HttpScheme ==
    Compile(Cat(<< Bol, Str(<<104, 116, 116, 112>>), Opt(Chr(115)), Eol >>), 0, TRUE)

\* match.string[match.span()[0]:match.span()[1]] == string, for a match made
\* by re_obj.match, which begins at offset 0
MatchIsWhole(match, string) == match # <<>> /\ match[1].pos = Len(string)

\* _valid_match: `string` is <<>> for None and <<the text>> otherwise;
\* re_obj.match(None) raises TypeError
ValidMatch(string, re_obj, optional) ==
    IF optional /\ string = <<>> THEN "True"
    ELSE IF string = <<>> THEN "TypeError"
    ELSE LET match == Match(re_obj, string[1])
         IN  IF optional
             THEN Bool(~(string[1] # <<>> /\ ~MatchIsWhole(match, string[1])))
             ELSE Bool(string[1] # <<>> /\ MatchIsWhole(match, string[1]))

\* the scheme capture of REGEXEN['validate_url_unencoded'], <<>> when absent
SchemeOf(s) ==
    LET url_parts == Match(validate_url_unencoded, s)
    IN  IF url_parts = <<>> THEN <<>> ELSE GroupText(url_parts[1], 1, s)

\* valid_url: "True", "False", or the exception that leaves it
ValidUrl(s, unicode_domains, require_protocol) ==
    LET url_parts == Match(validate_url_unencoded, s)
    IN  IF s = <<>> THEN "False"
        ELSE IF url_parts = <<>> THEN "False"
        ELSE
          LET scheme == GroupText(url_parts[1], 1, s)
              authority == GroupText(url_parts[1], 2, s)
              path == GroupText(url_parts[1], 3, s)
              query == GroupText(url_parts[1], 4, s)
              fragment == GroupText(url_parts[1], 5, s)
              scheme_valid == ValidMatch(scheme, validate_url_scheme, FALSE)
              protocol ==
                  IF ~require_protocol THEN "True"
                  ELSE IF scheme_valid # "True" THEN scheme_valid
                  ELSE Bool(Match(HttpScheme, scheme[1]) # <<>>)
              parts_valid ==
                  /\ protocol = "True"
                  /\ \/ path = << <<>> >>
                     \/ ValidMatch(path, validate_url_path, FALSE) = "True"
                  /\ ValidMatch(query, validate_url_query, TRUE) = "True"
                  /\ ValidMatch(fragment, validate_url_fragment, TRUE) = "True"
              authority_re == IF unicode_domains THEN validate_url_unicode_authority
                              ELSE validate_url_authority
          IN  IF protocol = "TypeError" THEN "TypeError"
              ELSE IF ~parts_valid THEN "False"
              ELSE ValidMatch(authority, authority_re, FALSE)

valid_url(unicode_domains, require_protocol) ==
    /\ result' = [tag |-> ValidUrl(text, unicode_domains, require_protocol), n |-> 0]
    /\ args' = [unicode_domains |-> unicode_domains, require_protocol |-> require_protocol]
    /\ options' = <<>>
    /\ op' = "valid_url"
    /\ UNCHANGED <<text, extracted, parent, default_options, build, threads>>

----------------------------------------------------------------------------
(* regex.py: the cashtag pattern                                           *)

\* REGEXEN['cashtag']: [a-z]{1,6}(?:[._][a-z]{1,2})?
cashtag ==
    Cat(<< Rep(Set(Lowers), 1, 6),
           Opt(Cat(<< Set(Chars({46, 95})), Rep(Set(Lowers), 1, 2) >>)) >>)

\* the second and third alternative of the marker group of valid_cashtag:
\* U+2116 U+255D U+0451 and U+2116 U+2563 U+0415
CashMarkers == << <<8470, 9565, 1105>>, <<8470, 9571, 1045>> >>

\* \s without re.UNICODE: [ \t\n\r\f\v]
AsciiSpace == Set(Chars({32, 9, 10, 13, 12, 11}))

\* REGEXEN['valid_cashtag']: (^|[spaces])(\$|...|...)(cashtag)(?=$|\s|[punctuation]),
\* re.IGNORECASE
valid_cashtag ==
    Compile(Cat(<< Group(1, Alt(<< Bol, Set(Chars(UNICODE_SPACES)) >>)),
                   Group(2, Alt(<< Chr(36), Str(CashMarkers[1]), Str(CashMarkers[2]) >>)),
                   Group(3, cashtag),
                   Ahead(Alt(<< Eol, AsciiSpace, Set(Chars(PUNCTUATION_CHARS)) >>)) >>),
            3, TRUE)

\* REGEXEN['valid_cashtag'].search(s): <<>> for None, else <<the offset of
\* the marker>>
CashtagAt(s) ==
    LET match == Search(valid_cashtag, s)
    IN  IF match = <<>> THEN <<>> ELSE <<match[1].caps[2][1]>>

cashtag_search ==
    LET found == CashtagAt(text)
    IN  /\ result' = IF found = <<>> THEN [tag |-> "None", n |-> 0]
                     ELSE [tag |-> "match", n |-> found[1]]
        /\ args' = [none |-> TRUE]
        /\ options' = <<>>
        /\ op' = "cashtag_search"
        /\ UNCHANGED <<text, extracted, parent, default_options, build, threads>>

----------------------------------------------------------------------------
(* Inputs                                                                  *)

NoParent == [present |-> FALSE, tweet_length |-> <<>>, tweet_is_valid |-> <<>>,
             tweet_validation_error |-> <<>>]

\* a parent object that has the three attributes, none of them set yet, and
\* that has not been linked (the assert of tweet_length passes)
SinkParent == [NoParent EXCEPT !.present = TRUE]

NoResult == [tag |-> "None", n |-> 0]

EmptyDict == [key \in {} |-> 0]

\* what a caller passes as options: nothing, or a dict with any of the two
\* URL-length keys bound to a length that differs from the default
UrlLengths == {24}

CallerDicts ==
    UNION {[keys -> UrlLengths] :
           keys \in SUBSET {"short_url_length", "short_url_length_https"}}

OptionArgs == {<<>>} \cup {<<d>> : d \in CallerDicts}

Rlo == <<8238>>                                         \* U+202E
Check == <<99, 104, 101, 99, 107, 32>>                  \* 'check '
HttpUrl == <<104, 116, 116, 112, 58, 47, 47, 101, 120, 97, 109, 112, 108,
             101, 46, 99, 111, 109>>                    \* 'http://example.com'
HttpsUrl == <<104, 116, 116, 112, 115, 58, 47, 47, 101, 120, 97, 109, 112,
              108, 101, 46, 99, 111, 109>>              \* 'https://example.com'
UpperHttpsUrl == <<72, 84, 84, 80, 83, 58, 47, 47, 101, 120, 97, 109, 112,
                   108, 101, 46, 99, 111, 109>>         \* 'HTTPS://example.com'
BareDomain == <<101, 120, 97, 109, 112, 108, 101, 46, 99, 111, 109>>
                                                        \* 'example.com'
HttpsQuery == <<47, 63, 117, 61, 104, 116, 116, 112, 115, 58, 47, 47, 98,
                46, 99, 111>>                           \* '/?u=https://b.co'
\* 'http://' + one more high surrogate than the default URL length + '.co'
SurrogateUrl ==
    <<104, 116, 116, 112, 58, 47, 47>>
        \o Times(55296, DEFAULT_TCO_URL_LENGTHS.short_url_length + 1)
        \o <<46, 99, 111>>

Tokens == {Rlo, InvalidCharactersPattern, Check, HttpUrl, HttpsUrl,
           UpperHttpsUrl, BareDomain, HttpsQuery, SurrogateUrl}

TokenSeqs(n) == UNION {[1..k -> Tokens] : k \in 0..n}

HttpPrefix == <<104, 116, 116, 112, 58, 47, 47>>              \* 'http://'

\* What every match of REGEXEN['valid_url'] has in common: an optional
\* 'http://' or 'https://' (in any case), then a domain that begins with a
\* domain-valid character and holds a '.', and no space character anywhere.
UrlShaped(s) ==
    LET rest == IF StartsWith(Lower(s), HttpsPrefix) THEN Slice(s, 8, Len(s))
                ELSE IF StartsWith(Lower(s), HttpPrefix) THEN Slice(s, 7, Len(s))
                ELSE s
    IN  /\ rest # <<>>
        /\ DOMAIN_VALID_CHARS(rest[1])
        /\ \E i \in 2..Len(rest) : rest[i] = 46
        /\ \A i \in 1..Len(s) : s[i] \notin SPACE_CHARS

\* Extractor.extract_urls_with_indices: an ordered list of non-overlapping,
\* half-open spans of the text, each with the substring it covers, which
\* is URL-shaped.  The model lets the spans begin and end at token boundaries.
UrlReports(ts) ==
    LET s == Flatten(ts)
        spans == {<<Cut(ts, i), Cut(ts, j)>> : i, j \in 0..Len(ts)}
        proper == {sp \in spans : sp[1] < sp[2] /\ UrlShaped(Slice(s, sp[1], sp[2]))}
        lists == UNION {[1..n -> proper] : n \in 0..MaxEntities}
        ordered == {l \in lists : \A m \in 1..(Len(l) - 1) : l[m][2] <= l[m + 1][1]}
    IN  {[m \in 1..Len(l) |->
            [url |-> Slice(s, l[m][1], l[m][2]), indices |-> l[m]]] : l \in ordered}

NoEntities == [urls |-> <<>>, screen_names |-> <<>>, hashtags |-> <<>>]

\* the Validation objects over the token sequences tss: the text, the parent
\* passed to the constructor, and what the extractor reports for the text
TweetInputs(tss, parents) ==
    UNION {{[text |-> Flatten(ts),
             extracted |-> [NoEntities EXCEPT !.urls = urls],
             parent |-> p] : urls \in UrlReports(ts), p \in parents} : ts \in tss}

\* unichr() takes codepoints up to 0xFFFF on a narrow build, up to 0x10FFFF
\* on a wide one
Builds == {"narrow", "wide"}

\* the state before the first call on an object
Fresh ==
    /\ args = [none |-> TRUE]
    /\ options = <<>>
    /\ op = "init"
    /\ result = NoResult

\* no call has been made on the object yet
FirstCall == op = "init"

\* the shared default dict is empty until the first call without options
\* fills it (see Spec); a one-call specification starts from either state
SharedStates == {EmptyDict, FillOptions(EmptyDict)}

----------------------------------------------------------------------------
(* Spec: Validation objects are constructed and called one after another   *)

SessionInputs ==
    TweetInputs({<<>>} \cup {<<t>> : t \in Tokens}, {NoParent, SinkParent})

Init ==
    /\ \E in \in SessionInputs :
          /\ text = in.text
          /\ extracted = in.extracted
          /\ parent = in.parent
    /\ default_options = EmptyDict
    /\ build = "wide"
    /\ Fresh
    /\ threads = <<>>

\* Validation.__init__
New ==
    /\ \E in \in SessionInputs :
          /\ text' = in.text
          /\ extracted' = in.extracted
          /\ parent' = in.parent
    /\ args' = [none |-> TRUE]
    /\ options' = <<>>
    /\ op' = "init"
    /\ result' = NoResult
    /\ UNCHANGED <<default_options, build, threads>>

Next ==
    \/ New
    \/ \E passed \in OptionArgs : tweet_length(passed)
    \/ tweet_invalid
    \/ valid_tweet_text

Spec == Init /\ [][Next]_vars

----------------------------------------------------------------------------
(* SpecText: one call of tweet_length, tweet_invalid or valid_tweet_text   *)
(* on a text of up to MaxTokens tokens                                     *)

TextInputs == TweetInputs(TokenSeqs(MaxTokens), {NoParent})

InitText ==
    /\ \E in \in TextInputs :
          /\ text = in.text
          /\ extracted = in.extracted
          /\ parent = in.parent
    /\ default_options \in SharedStates
    /\ build = "wide"
    /\ Fresh
    /\ threads = <<>>

NextText ==
    \/ \E passed \in OptionArgs : FirstCall /\ tweet_length(passed)
    \/ FirstCall /\ tweet_invalid
    \/ FirstCall /\ valid_tweet_text

SpecText == InitText /\ [][NextText]_vars

----------------------------------------------------------------------------
(* SpecLimit: one call on a text with no URL, padded with 0..MaxPad        *)
(* ASCII characters                                                        *)

Pad(n) == Times(97, n)                                    \* 'a' * n

LimitTexts == {head \o Pad(n) : head \in {<<>>, InvalidCharactersPattern},
                                n \in 0..MaxPad}

InitLimit ==
    /\ text \in LimitTexts
    /\ extracted = NoEntities
    /\ parent = NoParent
    /\ default_options \in SharedStates
    /\ build = "wide"
    /\ Fresh
    /\ threads = <<>>

NextLimit ==
    \/ FirstCall /\ tweet_length(<<>>)
    \/ FirstCall /\ tweet_invalid
    \/ FirstCall /\ valid_tweet_text

SpecLimit == InitLimit /\ [][NextLimit]_vars

----------------------------------------------------------------------------
(* SpecList: one call of valid_list on  pre @ name slug post               *)

ListPre == {<<>>, <<32>>, <<82, 84>>}                   \* '', ' ', 'RT'

ListPost == {<<>>, <<10>>, <<32>>}                      \* '', '\n', ' '

ListNames == {Times(97, n) : n \in 0..MaxName}          \* 'a' * n

\* no slug, '/' + 'b' * m, and a slug that starts with a digit
ListSlugs == {<<>>, <<47, 49, 98>>} \cup {<<47>> \o Times(98, m) : m \in 0..MaxSlug}

ListTexts ==
    {pre \o <<64>> \o name \o slug \o post :
        pre \in ListPre, name \in ListNames, slug \in ListSlugs, post \in ListPost}

InitList ==
    /\ text \in ListTexts
    /\ extracted = NoEntities
    /\ parent = NoParent
    /\ default_options = EmptyDict
    /\ build = "wide"
    /\ Fresh
    /\ threads = <<>>

NextList == FirstCall /\ valid_list

SpecList == InitList /\ [][NextList]_vars

----------------------------------------------------------------------------
(* SpecEntity: one call of valid_username or valid_hashtag                 *)

Mention == <<64, 106, 97, 99, 107>>                     \* '@jack'
Hashtag == <<35, 102, 111, 111>>                        \* '#foo'
NumericTag == <<35, 49, 50, 51>>                        \* '#123'
Space == <<32>>                                         \* ' '
SpaceBar == <<32, 98, 97, 114>>                         \* ' bar'
Bar == <<98, 97, 114>>                                  \* 'bar'

EntityTokens == {Mention, Hashtag, NumericTag, Space, SpaceBar, Bar}

EntityInputs ==
    UNION {{[text |-> Flatten(ts),
             extracted |-> [urls |-> <<>>, screen_names |-> names, hashtags |-> tags],
             build |-> b] :
                names \in ScreenNameReports(ts), tags \in HashtagReports(ts, b)} :
           ts \in UNION {[1..k -> EntityTokens] : k \in 0..MaxTokens}, b \in Builds}

InitEntity ==
    /\ \E in \in EntityInputs :
          /\ text = in.text
          /\ extracted = in.extracted
          /\ build = in.build
    /\ parent = NoParent
    /\ default_options = EmptyDict
    /\ Fresh
    /\ threads = <<>>

NextEntity ==
    \/ FirstCall /\ valid_username
    \/ FirstCall /\ valid_hashtag

SpecEntity == InitEntity /\ [][NextEntity]_vars

----------------------------------------------------------------------------
(* SpecUrl: one call of valid_url                                          *)

HttpScheme7 == <<104, 116, 116, 112, 58, 47, 47>>              \* 'http://'
UpperHttps == <<72, 84, 84, 80, 83, 58, 47, 47>>               \* 'HTTPS://'
Ftp == <<102, 116, 112, 58, 47, 47>>                           \* 'ftp://'
ExampleCom == <<101, 120, 97, 109, 112, 108, 101, 46, 99, 111, 109>>   \* 'example.com'
PathQuery == <<47, 112, 97, 116, 104, 63, 113, 61, 49>>        \* '/path?q=1'
Fragment == <<35, 102, 114, 97, 103>>                          \* '#frag'
ExamplePathQuery == ExampleCom \o PathQuery                    \* 'example.com/path?q=1'
UserPort == <<117, 64, 98, 46, 99, 111, 58, 56, 48>>           \* 'u@b.co:80'
UnicodeHost == <<233, 46, 99, 111>>                            \* U+00E9 '.co'
Blank == <<97, 32, 98>>                                        \* 'a b'

UrlTokens ==
    {HttpScheme7, UpperHttps, Ftp, ExampleCom, PathQuery, ExamplePathQuery, Fragment, UserPort,
     UnicodeHost, Blank}

UrlTexts == {Flatten(ts) : ts \in UNION {[1..k -> UrlTokens] : k \in 0..MaxUrlTokens}}

InitUrl ==
    /\ text \in UrlTexts
    /\ extracted = NoEntities
    /\ build = "wide"
    /\ parent = NoParent
    /\ default_options = EmptyDict
    /\ Fresh
    /\ threads = <<>>

NextUrl ==
    \E unicode_domains, require_protocol \in BOOLEAN :
        FirstCall /\ valid_url(unicode_domains, require_protocol)

SpecUrl == InitUrl /\ [][NextUrl]_vars

----------------------------------------------------------------------------
(* SpecWeight: one call of tweet_length on a text with no URL, made of     *)
(* the codepoints at and around the ends of the weight ranges              *)

\* both ends of every range of WEIGHTS and of the surrogate range, and the
\* codepoints next to them
EdgeCodepoints ==
    LET ends == UNION {{WEIGHTS.ranges[i].start, WEIGHTS.ranges[i].end} :
                          i \in 1..Len(WEIGHTS.ranges)} \cup {55296, 56319}
    IN  {c \in UNION {{e - 1, e, e + 1} : e \in ends} : c >= 0}

WeighedTexts == UNION {[1..n -> EdgeCodepoints] : n \in 0..MaxWeighed}

InitWeight ==
    /\ text \in WeighedTexts
    /\ extracted = NoEntities
    /\ parent = NoParent
    /\ default_options \in SharedStates
    /\ build = "wide"
    /\ Fresh
    /\ threads = <<>>

NextWeight == FirstCall /\ tweet_length(<<>>)

SpecWeight == InitWeight /\ [][NextWeight]_vars

----------------------------------------------------------------------------
(* SpecThreads: MaxThreads threads, each with a Validation object of its   *)
(* own, call tweet_length or tweet_invalid at the same time                *)

HttpsOnly == [short_url_length_https |-> 24]

ThreadTexts ==
    {[text |-> HttpsUrl, urls |-> << [url |-> HttpsUrl, indices |-> <<0, Len(HttpsUrl)>>] >>],
     [text |-> Check, urls |-> <<>>]}

ThreadCalls ==
    {[job |-> "tweet_length", passed |-> <<>>],
     [job |-> "tweet_length", passed |-> <<HttpsOnly>>],
     [job |-> "tweet_invalid", passed |-> <<>>]}

\* a thread about to make its call
ThreadInputs ==
    {[job |-> c.job, passed |-> c.passed, own |-> IF c.passed = <<>> THEN EmptyDict
                                                  ELSE c.passed[1],
      text |-> x.text, urls |-> x.urls,
      pc |-> "idle", key |-> 1, url |-> 1, call |-> 1, length |-> 0, first |-> 0,
      result |-> NoResult] : c \in ThreadCalls, x \in ThreadTexts}

InitThreads ==
    /\ text = <<>>
    /\ extracted = NoEntities
    /\ parent = NoParent
    /\ default_options = EmptyDict
    /\ build = "wide"
    /\ Fresh
    /\ threads \in [1..MaxThreads -> ThreadInputs]

NextThreads ==
    \E t \in 1..MaxThreads :
        \/ T_Call(t)
        \/ T_Test(t)
        \/ T_Set(t)
        \/ T_Weigh(t)
        \/ T_Url(t)
        \/ T_Return(t)

SpecThreads == InitThreads /\ [][NextThreads]_vars

----------------------------------------------------------------------------
(* SpecIp: one call of valid_url on 'http://a.b.c.d'                       *)

\* str(n) for 0 <= n <= 999: decimal digits, no leading zero
Decimal(n) ==
    IF n < 10 THEN <<48 + n>>
    ELSE IF n < 100 THEN <<48 + (n \div 10), 48 + (n % 10)>>
    ELSE <<48 + (n \div 100), 48 + ((n \div 10) % 10), 48 + (n % 10)>>

\* octets of one, two and three digits
Octets == {0, 7, 10, 255}

Ipv4Url(a, b, c, d) ==
    HttpScheme7 \o Decimal(a) \o <<46>> \o Decimal(b) \o <<46>> \o Decimal(c)
        \o <<46>> \o Decimal(d)

Ipv4Urls == {Ipv4Url(a, b, c, d) : a, b, c, d \in Octets}

InitIp ==
    /\ text \in Ipv4Urls
    /\ extracted = NoEntities
    /\ build = "wide"
    /\ parent = NoParent
    /\ default_options = EmptyDict
    /\ Fresh
    /\ threads = <<>>

NextIp == \E unicode_domains \in BOOLEAN : FirstCall /\ valid_url(unicode_domains, TRUE)

SpecIp == InitIp /\ [][NextIp]_vars

----------------------------------------------------------------------------
(* SpecHashtag: one search of the hashtag pattern in a short text          *)

\* 'a', 'z', 'Z', '9', '_', '&', ' ', '[', '#'
TagChars == {97, 122, 90, 57, 95, 38, 32, 91, 35}

TagTexts == UNION {[1..n -> TagChars] : n \in 0..MaxTagChars}

InitHashtag ==
    /\ text \in TagTexts
    /\ extracted = NoEntities
    /\ build \in Builds
    /\ parent = NoParent
    /\ default_options = EmptyDict
    /\ Fresh
    /\ threads = <<>>

NextHashtag == FirstCall /\ hashtag_search

SpecHashtag == InitHashtag /\ [][NextHashtag]_vars

----------------------------------------------------------------------------
(* SpecMention: one search of the mention pattern in  local @ domain       *)

\* 'R', 'T', 'a', '9', '_', '.', ':'
LocalChars == {82, 84, 97, 57, 95, 46, 58}

LocalParts == UNION {[1..n -> LocalChars] : n \in 1..MaxLocal}

MailDomains == {<<98, 46, 99, 111>>, ExampleCom}        \* 'b.co', 'example.com'

MailTexts == {local \o <<64>> \o domain : local \in LocalParts, domain \in MailDomains}

InitMention ==
    /\ text \in MailTexts
    /\ extracted = NoEntities
    /\ build = "wide"
    /\ parent = NoParent
    /\ default_options = EmptyDict
    /\ Fresh
    /\ threads = <<>>

NextMention == FirstCall /\ mention_search

SpecMention == InitMention /\ [][NextMention]_vars

----------------------------------------------------------------------------
(* SpecCj: one search of the hashtag pattern, as built on a narrow or a    *)
(* wide build, in '#' followed by one character at or next to an end of a  *)
(* range of the CJ class                                                   *)

CjEdges ==
    LET ranges == CJ_HASHTAG_CHARACTERS_16 \cup CJ_HASHTAG_CHARACTERS_EXTENDED
    IN  UNION {{r[1] - 1, r[1], r[2], r[2] + 1} : r \in ranges}

\* a string of a narrow build holds 16-bit code units only
CjInputs ==
    {in \in {[build |-> b, text |-> <<35, c>>] : b \in Builds, c \in CjEdges} :
        in.build = "wide" \/ in.text[2] <= 65535}

InitCj ==
    /\ \E in \in CjInputs :
          /\ text = in.text
          /\ build = in.build
    /\ extracted = NoEntities
    /\ parent = NoParent
    /\ default_options = EmptyDict
    /\ Fresh
    /\ threads = <<>>

NextCj == FirstCall /\ hashtag_search

SpecCj == InitCj /\ [][NextCj]_vars

----------------------------------------------------------------------------
(* SpecCashtag: one search of the cashtag pattern in  lead $ symbol rest   *)

\* the whitespace codepoints the comments of UNICODE_SPACES list
ListedSpaces ==
    (9..13) \cup {32, 133, 160, 5760, 6158} \cup (8192..8202)
        \cup {8232, 8233, 8239, 8287, 12288}

\* the listed spaces, and 'a', '.', U+200B
CashLeads == ListedSpaces \cup {97, 46, 8203}

CashSymbols == {<<116, 119, 116, 114>>, <<66, 82, 75, 46, 65>>}   \* 'twtr', 'BRK.A'

CashRests == {<<>>, <<32>>, <<46>>, <<49>>}                      \* '', ' ', '.', '1'

CashTexts ==
    {<<lead, 36>> \o symbol \o rest :
        lead \in CashLeads, symbol \in CashSymbols, rest \in CashRests}

InitCashtag ==
    /\ text \in CashTexts
    /\ extracted = NoEntities
    /\ build = "wide"
    /\ parent = NoParent
    /\ default_options = EmptyDict
    /\ Fresh
    /\ threads = <<>>

NextCashtag == FirstCall /\ cashtag_search

SpecCashtag == InitCashtag /\ [][NextCashtag]_vars

----------------------------------------------------------------------------
(* Properties of tweet_length, tweet_invalid and valid_tweet_text          *)

DisallowedCodepoints == {INVALID_CHARACTERS[i] : i \in 1..Len(INVALID_CHARACTERS)}

ContainsDisallowed(s) == \E i \in 1..Len(s) : s[i] \in DisallowedCodepoints

\* tweet_length of the current text under the default options
DefaultLength == Length(text, extracted.urls, DEFAULT_TCO_URL_LENGTHS)

\* the option value a call works with: the caller's, or else the default
Configured(passed, key) ==
    IF passed # <<>> /\ key \in DOMAIN passed[1]
    THEN passed[1][key] ELSE DEFAULT_TCO_URL_LENGTHS[key]

RECURSIVE SpanTotal(_, _)
SpanTotal(urls, i) ==
    IF i > Len(urls) THEN 0
    ELSE (urls[i].indices[2] - urls[i].indices[1]) + SpanTotal(urls, i + 1)

\* C1: a text whose tweet_length is in 1..280 and that contains a disallowed
\* codepoint anywhere is reported 'Invalid characters' by tweet_invalid and
\* false by valid_tweet_text.
C1_DisallowedCodepointReported ==
    (ContainsDisallowed(text) /\ DefaultLength >= 1 /\ DefaultLength <= MAX_LENGTH)
        => /\ op = "tweet_invalid" => result.tag = "Invalid characters"
           /\ op = "valid_tweet_text" => result.tag = "False"

\* C2: tweet_invalid reports the first applicable reason in the order Empty
\* text, Too long, Invalid characters: 'Invalid characters' is returned only
\* for a text that is neither empty-length nor longer than 280.
C2_FirstReasonReported ==
    op = "tweet_invalid" =>
        result.tag = IF DefaultLength = 0 THEN "Empty text"
                     ELSE IF DefaultLength > MAX_LENGTH THEN "Too long"
                     ELSE IF HasInvalidCharacters(text) THEN "Invalid characters"
                     ELSE "False"

\* C3: with the default options tweet_length returns a value >= 0, whatever
\* URL spans the extractor reports.
C3_LengthNonNegative ==
    (op = "tweet_length" /\ args.options = <<>>) => result.n >= 0

IsAscii(s) == \A i \in 1..Len(s) : s[i] <= 127

\* C5: for a text of n ASCII characters with no extracted URL, tweet_invalid
\* returns 'Empty text' when n = 0, false when 1 <= n <= 280 and 'Too long'
\* when n >= 281.
C5_LimitIs280 ==
    (op = "tweet_invalid" /\ IsAscii(text) /\ extracted.urls = <<>>) =>
        result.tag = IF Len(text) = 0 THEN "Empty text"
                     ELSE IF Len(text) <= 280 THEN "False"
                     ELSE "Too long"

C5_Witness ==
    /\ op = "tweet_invalid"
    /\ text = Pad(280)
    /\ extracted.urls = <<>>
    /\ result.tag = "False"

AllWeight100(s) == \A i \in 1..Len(s) : CharWeight(s[i]) = 100

\* C6: for a text whose codepoints all weigh 100, tweet_length is len(text)
\* minus the sum of (end - start) over the extracted URLs plus, for each
\* extracted URL, one of the two configured replacement lengths.
C6_UrlReplaced ==
    (op = "tweet_length" /\ AllWeight100(text)) =>
        LET urls == extracted.urls
            http == Configured(args.options, "short_url_length")
            https == Configured(args.options, "short_url_length_https")
            base == Len(text) - SpanTotal(urls, 1)
        IN  \E k \in 0..Len(urls) :
               result.n = base + k * https + (Len(urls) - k) * http

\* 'check http://example.com' with the URL at [6, 24) has length 6 + 23 = 29
C6_Witness ==
    /\ op = "tweet_length"
    /\ args.options = <<>>
    /\ text = Check \o HttpUrl
    /\ extracted.urls = << [url |-> HttpUrl, indices |-> <<6, 24>>] >>
    /\ result.n = 29

RECURSIVE PrefixCharges(_, _, _)
PrefixCharges(urls, i, passed) ==
    IF i > Len(urls) THEN 0
    ELSE (IF StartsWith(Lower(urls[i].url), HttpsPrefix)
          THEN Configured(passed, "short_url_length_https")
          ELSE Configured(passed, "short_url_length"))
         + PrefixCharges(urls, i + 1, passed)

\* C7: an extracted URL is charged short_url_length_https if and only if its
\* text starts with 'https://' (in any case); every other URL is charged
\* short_url_length.
C7_HttpsPrefixSelectsLength ==
    op = "tweet_length" =>
        result.n = (CollectiveWeight(text, 1, Len(text)) \div WEIGHTS.scale)
                   - SpanTotal(extracted.urls, 1)
                   + PrefixCharges(extracted.urls, 1, args.options)

\* C10: every call of tweet_length made with the default options returns the
\* value the text has under the default URL lengths, whatever calls were made
\* before it, on whichever objects and with whichever options.
C10_DefaultCallsAgree ==
    (op = "tweet_length" /\ args.options = <<>>) => result.n = DefaultLength

\* a call with the default options on a text with one URL, on an object
\* that has a parent
C10_Witness ==
    /\ op = "tweet_length"
    /\ args.options = <<>>
    /\ Len(extracted.urls) = 1
    /\ parent.present
    /\ result.n = DefaultLength

NameChar(c) == (c >= 97 /\ c <= 122) \/ (c >= 65 /\ c <= 90) \/ (c >= 48 /\ c <= 57) \/ c = 95

LetterChar(c) == (c >= 97 /\ c <= 122) \/ (c >= 65 /\ c <= 90)

\* the whole of s is an at-sign, a screen name of 1..20 characters, a '/' and
\* a list slug of 1..25 characters that starts with a letter
IsListText(s) ==
    \E k \in 1..20 :
        /\ Len(s) >= k + 3
        /\ Len(s) <= k + 2 + 25
        /\ s[1] \in AtSignChars
        /\ \A i \in 2..(k + 1) : NameChar(s[i])
        /\ s[k + 2] = 47
        /\ LetterChar(s[k + 3])
        /\ \A i \in (k + 4)..Len(s) : NameChar(s[i]) \/ s[i] = 45

\* C9: valid_list is true exactly when the entire text, with no character
\* before or after it (a trailing newline included), is an at-sign, a screen
\* name of 1..20 characters, a '/' and a list slug of 1..25 characters that
\* starts with a letter.
C9_ListAnchoredAtBothEnds ==
    op = "valid_list" => (result.tag = "True" <=> IsListText(text))

\* the extractor's list holds exactly one entity, which is the whole text
\* minus its first character
OneEntitySpansText(entities) ==
    /\ Len(entities) = 1
    /\ Len(text) = Len(entities[1]) + 1
    /\ \A i \in 1..Len(entities[1]) : entities[1][i] = text[i + 1]

\* C8: valid_username (valid_hashtag) returns true exactly when the extractor
\* yields exactly one screen name (hashtag) and it equals the whole text minus
\* its first character; it returns false for the empty text and for a text
\* with an extra character before or after the single entity.
C8_SingleEntitySpansText ==
    /\ op = "valid_username" =>
          /\ result.tag = "True" <=> OneEntitySpansText(extracted.screen_names)
          /\ text = <<>> => result.tag = "False"
          /\ (Len(extracted.screen_names) = 1
                /\ Len(text) > Len(extracted.screen_names[1]) + 1)
                => result.tag = "False"
    /\ op = "valid_hashtag" =>
          /\ result.tag = "True" <=> OneEntitySpansText(extracted.hashtags)
          /\ text = <<>> => result.tag = "False"
          /\ (Len(extracted.hashtags) = 1
                /\ Len(text) > Len(extracted.hashtags[1]) + 1)
                => result.tag = "False"

\* valid_username('@jack ') with the screen name 'jack' extracted is false
C8_Witness ==
    /\ op = "valid_username"
    /\ text = Mention \o Space
    /\ extracted.screen_names = << <<106, 97, 99, 107>> >>
    /\ result.tag = "False"

\* C4: for every non-empty text without a 'scheme://' prefix (the scheme
\* capture is absent), valid_url with require_protocol=True returns false; no
\* exception leaves valid_url.
C4_AbsentSchemeIsFalse ==
    (/\ op = "valid_url"
     /\ args.require_protocol
     /\ text # <<>>
     /\ Match(validate_url_unencoded, text) # <<>>
     /\ SchemeOf(text) = <<>>)
        => result.tag = "False"

\* the weight the table gives a codepoint: 0 for U+D800..U+DBFF, else the
\* weight of the first range that contains it, else the default weight
FirstRangeWeight(c) ==
    LET hits == {i \in 1..Len(WEIGHTS.ranges) :
                    WEIGHTS.ranges[i].start <= c /\ c <= WEIGHTS.ranges[i].end}
    IN  IF c >= 55296 /\ c <= 56319 THEN 0
        ELSE IF hits = {} THEN 200
        ELSE WEIGHTS.ranges[CHOOSE i \in hits : \A j \in hits : i <= j].weight

RECURSIVE WeightSum(_, _)
WeightSum(s, i) == IF i > Len(s) THEN 0 ELSE FirstRangeWeight(s[i]) + WeightSum(s, i + 1)

C12_InputsUnchanged ==
    [][op' = "tweet_length" => (text' = text /\ options' = args'.options)]_vars

\* what the call of a thread returns when it is the only call ever made
AloneResult(th) ==
    LET opts == IF ThreadPassed(th) = <<>> THEN DEFAULT_TCO_URL_LENGTHS
                ELSE FillOptions(th.passed[1])
        length == Length(th.text, th.urls, opts)
    IN  IF th.job = "tweet_length" THEN [tag |-> "int", n |-> length]
        ELSE [tag |-> InvalidReturn(ValidationError(th.text, length)), n |-> 0]

\* C13: when several threads call tweet_length or tweet_invalid at the same
\* time on Validation objects of their own, every call that has returned
\* has returned what it returns when run alone, and the shared default
\* options never hold anything but default lengths.
C13_CallsIndependent ==
    /\ \A t \in DOMAIN threads :
          threads[t].pc = "done" => threads[t].result = AloneResult(threads[t])
    /\ threads # <<>> =>
          \A key \in DOMAIN default_options :
              default_options[key] = DEFAULT_TCO_URL_LENGTHS[key]

\* a thread has returned from a call on a text with a URL while the other,
\* which found a key missing from the shared dict before the first wrote it,
\* is about to write that key again
C13_Witness ==
    /\ threads # <<>>
    /\ threads[1].pc = "done"
    /\ threads[1].job = "tweet_length" /\ threads[1].passed = <<>>
    /\ threads[1].urls # <<>>
    /\ threads[1].result.n = 23
    /\ threads[2].pc = "set"
    /\ UsesDefault(ThreadPassed(threads[2]))
    /\ ~KeyMissing(default_options, DefaultKeys[threads[2].key])

\* C14: for all decimal octets a, b, c, d written without leading zeros,
\* valid_url('http://a.b.c.d') is true, with unicode_domains true and false.
C14_Ipv4Accepted ==
    (op = "valid_url" /\ args.require_protocol /\ text \in Ipv4Urls)
        => result.tag = "True"

\* an ASCII letter, a digit, '_' or '&'
WordChar(c) == NameChar(c) \/ c = 38

\* C15: the hashtag pattern matches a '#' only at the start of the text or
\* directly after a boundary character: a '#' directly preceded by an ASCII
\* letter, a digit, '_' or '&' never starts a hashtag match.
C15_HashtagAfterBoundary ==
    (op = "hashtag_search" /\ result.tag = "match" /\ result.n > 0)
        => ~WordChar(text[result.n])

\* C16: in a text local@domain whose character directly before the '@' is
\* an ASCII letter, a digit or '_', the mention pattern finds no mention
\* whose at-sign is that '@'.
C16_NoMentionInEmail ==
    (op = "mention_search" /\ result.tag = "match" /\ result.n > 0)
        => ~NameChar(text[result.n])

\* the CJ class of a wide build, less its ranges above U+FFFF
WideClassIn16Bits ==
    {r \in CJ_HASHTAG_CHARACTERS_16 \cup CJ_HASHTAG_CHARACTERS_EXTENDED : r[2] <= 65535}

\* C17: on a narrow build the CJ hashtag class is the class of a wide build
\* with exactly the ranges above U+FFFF omitted: '#' followed by a 16-bit
\* character of the class (U+3003, U+3005 and U+303B included) is a hashtag,
\* and '#' followed by a character that is no hashtag letter of a wide build
\* is none.
C17_NarrowClassKeeps16Bit ==
    (op = "hashtag_search" /\ build = "narrow" /\ Len(text) = 2 /\ text[1] = 35) =>
        LET c == text[2]
            member == InClass(c, Set({<<97, 122>>} \cup Underscore \cup LATIN_ACCENTS
                                        \cup NON_LATIN_HASHTAG_CHARS
                                        \cup WideClassIn16Bits), TRUE)
        IN  result.tag = "match" <=> member

\* C18: UNICODE_SPACES holds every codepoint its comments list, so a '$'
\* cashtag directly preceded by any of them is at a valid leading boundary:
\* it is found there whenever it is found at the start of the text without
\* the preceding character.
C18_ListedSpaceIsBoundary ==
    (op = "cashtag_search" /\ text[1] \in ListedSpaces
        /\ CashtagAt(Tail(text)) = <<0>>)
        => (result.tag = "match" /\ result.n = 1)

====
